---- MODULE Spec2Model ----
(***************************************************************************)
(* Model of src/main.rs: a documentation-site server.  At start-up main    *)
(* scans the documentation root for version directories (get_versions,     *)
(* list_version_dirs, sort_versions), projects the catalog to the menu     *)
(* data of the home page (make_menu_data), registers three handlers (home, *)
(* static files, fallback text) and listens.                               *)
(*                                                                         *)
(* Strings are sequences of one-character strings, so that the regular     *)
(* expression, the integer parse and the formatting are computed on the    *)
(* characters.                                                             *)
(***************************************************************************)
EXTENDS Integers, Sequences, FiniteSets, TLC

VARIABLES
    root,            \* what the path DOC_ROOT names on disk
    children,        \* the entries of the documentation root: name -> kind
    pc,              \* position of main
    listing,         \* the entries fs::read_dir has still to yield
    version_tuples,  \* list_version_dirs' local Vec<(u32, u32, String)>
    result,          \* what get_versions returned, once it has
    versions,        \* main's local `versions`
    menu_data,       \* main's local `menu_data` (empty until it is built)
    stdout,          \* the lines main printed
    scans,           \* how many times get_versions was called
    inflight,        \* requests accepted and not yet answered
    response         \* the last response sent (empty before the first)

vars == <<root, children, pc, listing, version_tuples, result, versions,
          menu_data, stdout, scans, inflight, response>>

-----------------------------------------------------------------------------
(* Bounds of the model *)

\* longest generated directory name of SpecName
MaxNameLen == 4
\* most entries of the documentation root in SpecScan
MaxEntries == 3
\* longest catalog handed to make_menu_data in SpecMenu
MaxVers == 3
\* most requests in flight at once
MaxInflight == 2

-----------------------------------------------------------------------------
(* Program constants *)

DOC_ROOT == <<"p", "u", "b", "l", "i", "c">>

HOME_TEMPLATE == <<"assets/home.mustache">>

\* a u32 is held as <<high, low>>, two 16-bit halves: 2^16
Half == 65536

-----------------------------------------------------------------------------
(* Characters *)

AsciiDigits == {"0", "1", "2", "3", "4", "5", "6", "7", "8", "9"}

\* the class \d of the regex, on the ASCII names of this model
IsDigit(c) == c \in AsciiDigits

DigitVal(c) ==
    CASE c = "0" -> 0 [] c = "1" -> 1 [] c = "2" -> 2 [] c = "3" -> 3
      [] c = "4" -> 4 [] c = "5" -> 5 [] c = "6" -> 6 [] c = "7" -> 7
      [] c = "8" -> 8 [] c = "9" -> 9

Max(S) == CHOOSE x \in S : \A y \in S : y <= x

\* entry.path(): the directory joined with the entry's name
JoinPath(dir, name) == dir \o <<"/">> \o name

-----------------------------------------------------------------------------
(* RE_SEM_VER = .*/(\d+)\.(\d+)  searched in the path, not anchored *)

\* the end of the longest run of digits of s that starts at i (i-1 if none)
RECURSIVE RunEnd(_, _)
RunEnd(s, i) ==
    IF i <= Len(s) /\ IsDigit(s[i]) THEN RunEnd(s, i + 1) ELSE i - 1

\* (\d+)\.(\d+) matches at position i: both groups are greedy
MatchAt(s, i) ==
    LET e1 == RunEnd(s, i) IN
    /\ e1 >= i
    /\ e1 + 1 <= Len(s)
    /\ s[e1 + 1] = "."
    /\ RunEnd(s, e1 + 2) >= e1 + 2

\* the slashes after which the two groups match
MatchStarts(s) == {i \in 1..Len(s) : s[i] = "/" /\ MatchAt(s, i + 1)}

IsMatch(s) == MatchStarts(s) # {}

\* cap.at(1), cap.at(2): the greedy .* takes the last such slash
Captures(s) ==
    LET i  == Max(MatchStarts(s))
        e1 == RunEnd(s, i + 1)
        e2 == RunEnd(s, e1 + 2)
    IN <<SubSeq(s, i + 1, e1), SubSeq(s, e1 + 2, e2)>>

-----------------------------------------------------------------------------
(* str::parse::<u32>: digit by digit, failing on a character that is not   *)
(* an ASCII digit and on overflow of the 32 bits.  The result is <<n>>, n  *)
(* the two halves of the number, or <<>> (Err).                            *)

RECURSIVE ParseFrom(_, _, _)
ParseFrom(s, i, acc) ==
    IF i > Len(s) THEN <<acc>>
    ELSE IF s[i] \notin AsciiDigits THEN <<>>
    ELSE LET low  == acc[2] * 10 + DigitVal(s[i])
             high == acc[1] * 10 + low \div Half
         IN IF high >= Half THEN <<>>
            ELSE ParseFrom(s, i + 1, <<high, low % Half>>)

ParseU32(s) == IF s = <<>> THEN <<>> ELSE ParseFrom(s, 1, <<0, 0>>)

\* format!("{}.{}", v1, v2) of the two captured strings
FormatLabel(v1, v2) == v1 \o <<".">> \o v2

DigitChar(d) == <<"0", "1", "2", "3", "4", "5", "6", "7", "8", "9">>[d + 1]

\* the decimal digits of a u32 held as two halves, most significant first
RECURSIVE DigitsOf(_)
DigitsOf(n) ==
    IF n = <<0, 0>> THEN <<>>
    ELSE LET x == (n[1] % 10) * Half + n[2] IN
         DigitsOf(<<n[1] \div 10, x \div 10>>) \o <<DigitChar(x % 10)>>

\* u32::to_string
U32ToString(n) == IF n = <<0, 0>> THEN <<"0">> ELSE DigitsOf(n)

\* the tuple with its label formatted from the parsed numbers
MakeTupleCanonical(cap) ==
    <<ParseU32(cap[1])[1], ParseU32(cap[2])[1],
      FormatLabel(U32ToString(ParseU32(cap[1])[1]),
                  U32ToString(ParseU32(cap[2])[1]))>>

\* the tuple list_version_dirs pushes for the captures <<v1, v2>>
MakeTuple(cap) ==
    <<ParseU32(cap[1])[1], ParseU32(cap[2])[1], FormatLabel(cap[1], cap[2])>>

\* whether one of the two unwrap() calls panics
ParsePanics(cap) == ParseU32(cap[1]) = <<>> \/ ParseU32(cap[2]) = <<>>

-----------------------------------------------------------------------------
(* sort_versions: a stable sort by major, then minor *)

\* the closure of sort_by: Ordering as -1, 0, 1
CmpInt(a, b) == IF a < b THEN -1 ELSE IF a > b THEN 1 ELSE 0

\* u32::cmp
CmpU32(a, b) == IF a[1] # b[1] THEN CmpInt(a[1], b[1]) ELSE CmpInt(a[2], b[2])

CmpVersions(a, b) ==
    IF CmpU32(a[1], b[1]) = 0 THEN CmpU32(a[2], b[2]) ELSE CmpU32(a[1], b[1])

\* t inserted after every element that is not greater: stable
RECURSIVE InsertSorted(_, _)
InsertSorted(t, s) ==
    IF s = <<>> THEN <<t>>
    ELSE IF CmpVersions(t, Head(s)) < 0 THEN <<t>> \o s
    ELSE <<Head(s)>> \o InsertSorted(t, Tail(s))

RECURSIVE SortFrom(_, _, _)
SortFrom(s, i, acc) ==
    IF i > Len(s) THEN acc ELSE SortFrom(s, i + 1, InsertSorted(s[i], acc))

sort_versions(s) == SortFrom(s, 1, <<>>)

\* Vec::reverse
Reverse(s) == [i \in 1..Len(s) |-> s[Len(s) + 1 - i]]

\* get_versions without the call of reverse
get_versions_ascending(tuples) ==
    LET sorted == sort_versions(tuples) IN
    [i \in 1..Len(sorted) |-> sorted[i][3]]

\* get_versions after list_version_dirs returned Ok(tuples)
get_versions(tuples) ==
    LET sorted == Reverse(sort_versions(tuples)) IN
    [i \in 1..Len(sorted) |-> sorted[i][3]]

-----------------------------------------------------------------------------
(* make_menu_data *)

\* the map of one version: {"version": ver}
VersionMap(ver) == [version |-> ver]

RECURSIVE CollectMaps(_, _, _)
CollectMaps(vers, i, acc) ==
    IF i > Len(vers) THEN acc
    ELSE CollectMaps(vers, i + 1, Append(acc, VersionMap(vers[i])))

\* make_menu_data with the versions collected in reverse
make_menu_data_reversed(vers) == [versions |-> CollectMaps(Reverse(vers), 1, <<>>)]

make_menu_data(vers) == [versions |-> CollectMaps(vers, 1, <<>>)]

-----------------------------------------------------------------------------
(* The file system *)

\* what DOC_ROOT can name: nothing, a directory that cannot be listed, a
\* regular file, a directory
RootKinds == {"missing", "unreadable", "file", "dir"}

\* what an entry of the root can be: a directory, a regular file, a
\* symbolic link to nothing (listed by read_dir, without metadata)
EntryKinds == {"dir", "file", "broken"}

\* fs::metadata(dir) with its error taken for "not a directory"
RootMetadataLenient(rt) == <<rt \in {"dir", "unreadable"}>>

\* fs::metadata(dir): <<is_dir>> or <<>> (Err)
RootMetadata(rt) == IF rt = "missing" THEN <<>> ELSE <<rt \in {"dir", "unreadable"}>>

\* fs::metadata(entry.path()): <<is_dir>> or <<>> (Err): the entry may be
\* gone since it was listed
EntryMetadata(ch, name) ==
    IF name \notin DOMAIN ch \/ ch[name] = "broken" THEN <<>>
    ELSE <<ch[name] = "dir">>

\* the orders in which read_dir may yield the entries
Orders(D) ==
    {s \in [1..Cardinality(D) -> D] :
        \A i, j \in 1..Cardinality(D) : i # j => s[i] # s[j]}

NoResult == [tag |-> "none", val |-> <<>>, err |-> ""]
Ok(v) == [tag |-> "Ok", val |-> v, err |-> ""]
Err(e) == [tag |-> "Err", val |-> <<>>, err |-> e]

-----------------------------------------------------------------------------
(* main, up to listen *)

\* list_version_dirs: fs::metadata(dir) and the is_dir test
StatRoot ==
    /\ pc = "start"
    /\ scans' = scans + 1
    /\ IF RootMetadata(root) = <<>>
          THEN /\ result' = Err("NotFound")
               /\ pc' = "error"
               /\ UNCHANGED listing
          ELSE IF RootMetadata(root)[1]
          THEN /\ pc' = "read_dir"
               /\ UNCHANGED <<result, listing>>
          ELSE \* not a directory: the block is skipped, Ok(versions) follows
               /\ pc' = "iter"
               /\ listing' = <<>>
               /\ UNCHANGED result
    /\ UNCHANGED <<root, children, version_tuples, versions, menu_data,
                   stdout, inflight, response>>

\* list_version_dirs: try!(fs::read_dir(dir))
ReadDir ==
    /\ pc = "read_dir"
    /\ IF root = "unreadable"
          THEN /\ result' = Err("PermissionDenied")
               /\ pc' = "error"
               /\ UNCHANGED listing
          ELSE /\ \E order \in Orders(DOMAIN children) : listing' = order
               /\ pc' = "iter"
               /\ UNCHANGED result
    /\ UNCHANGED <<root, children, version_tuples, versions, menu_data,
                   stdout, scans, inflight, response>>

\* list_version_dirs: one turn of the for loop, on a name whose metadata
\* is md and that is a directory: the regex, the two parses, the push
ScanDir(name) ==
    LET path == JoinPath(DOC_ROOT, name) IN
    IF ~IsMatch(path)
    THEN /\ pc' = "iter"
         /\ UNCHANGED version_tuples
    ELSE IF ParsePanics(Captures(path))
    THEN /\ pc' = "panicked"
         /\ UNCHANGED version_tuples
    ELSE /\ pc' = "iter"
         /\ version_tuples' = Append(version_tuples, MakeTuple(Captures(path)))

\* list_version_dirs: one turn of the for loop
ScanEntry ==
    /\ pc = "iter"
    /\ listing # <<>>
    /\ listing' = Tail(listing)
    /\ LET name == Head(listing)
           md   == EntryMetadata(children, name)
       IN IF md = <<>>
          THEN /\ result' = Err("NotFound")
               /\ pc' = "error"
               /\ UNCHANGED version_tuples
          ELSE IF md[1]
          THEN /\ ScanDir(name)
               /\ UNCHANGED result
          ELSE /\ pc' = "iter"
               /\ UNCHANGED <<result, version_tuples>>
    /\ UNCHANGED <<root, children, versions, menu_data, stdout, scans,
                   inflight, response>>

\* list_version_dirs returns Ok(versions); get_versions sorts, reverses
\* and keeps the labels
GetVersionsOk ==
    /\ pc = "iter"
    /\ listing = <<>>
    /\ result' = Ok(get_versions(version_tuples))
    /\ pc' = "returned"
    /\ UNCHANGED <<root, children, listing, version_tuples, versions,
                   menu_data, stdout, scans, inflight, response>>

\* main, the Ok arm and on: the menu data, the three handlers, listen
MainOk ==
    /\ pc = "returned"
    /\ versions' = result.val
    /\ menu_data' = <<make_menu_data(result.val)>>
    /\ pc' = "listening"
    /\ UNCHANGED <<root, children, listing, version_tuples, result, stdout,
                   scans, inflight, response>>

\* main printing the diagnostic and going on to serve what was collected
MainErrServes ==
    /\ pc = "error"
    /\ stdout' = Append(stdout, [error |-> result.err, dir |-> DOC_ROOT])
    /\ versions' = get_versions(version_tuples)
    /\ menu_data' = <<make_menu_data(get_versions(version_tuples))>>
    /\ pc' = "listening"
    /\ UNCHANGED <<root, children, listing, version_tuples, result, scans,
                   inflight, response>>

\* main, the Err arm: the diagnostic, and return
MainErr ==
    /\ pc = "error"
    /\ stdout' = Append(stdout, [error |-> result.err, dir |-> DOC_ROOT])
    /\ pc' = "exited"
    /\ UNCHANGED <<root, children, listing, version_tuples, result, versions,
                   menu_data, scans, inflight, response>>

-----------------------------------------------------------------------------
(* The handlers main registers, in the order it registers them *)

\* Request::path_without_query: the URI up to its first '?'
RECURSIVE PathWithoutQuery(_)
PathWithoutQuery(uri) ==
    IF uri = <<>> \/ Head(uri) = "?" THEN <<>>
    ELSE <<Head(uri)>> \o PathWithoutQuery(Tail(uri))

PageBody(data) == [kind |-> "page", text |-> HOME_TEMPLATE, data |-> data]
FileBody(path) == [kind |-> "file", text |-> path, data |-> <<>>]
TextBody(text) == [kind |-> "text", text |-> text, data |-> <<>>]

\* the tuples of the version directories of ch whose names are in S
RECURSIVE TuplesOf(_, _)
TuplesOf(S, ch) ==
    IF S = {} THEN <<>>
    ELSE LET n == CHOOSE x \in S : TRUE
             rest == TuplesOf(S \ {n}, ch)
         IN IF ch[n] = "dir" /\ IsMatch(JoinPath(DOC_ROOT, n))
            THEN <<MakeTuple(Captures(JoinPath(DOC_ROOT, n)))>> \o rest
            ELSE rest

\* a home handler that scans the root again on every request
HomeHandlerRescan(req, menu) ==
    IF req.method = "GET" /\ PathWithoutQuery(req.uri) = <<"/">>
    THEN <<PageBody(<<make_menu_data(
                get_versions(TuplesOf(DOMAIN children, children)))>>)>>
    ELSE <<>>

\* server.get("/", ...): GET and the exact path "/"; renders the template
\* with the menu data.  <<body>>, or <<>> for the next handler
HomeHandler(req, menu) ==
    IF req.method = "GET" /\ PathWithoutQuery(req.uri) = <<"/">>
    THEN <<PageBody(menu)>>
    ELSE <<>>

IndexHtml == <<"i", "n", "d", "e", "x", ".", "h", "t", "m", "l">>

\* the file the static handler looks for: "/" is index.html, any other
\* path loses its leading slash
StaticTarget(req) ==
    LET path == PathWithoutQuery(req.uri) IN
    IF path = <<"/">> THEN IndexHtml ELSE Tail(path)

\* whether DOC_ROOT/name is a regular file
IsFile(rt, ch, name) ==
    rt \in {"dir", "unreadable"} /\ name \in DOMAIN ch /\ ch[name] = "file"

\* server.mount("/", StaticFilesHandler::new(DOC_ROOT)): GET and HEAD of
\* an existing regular file
StaticHandler(req, rt, ch) ==
    IF req.method \in {"GET", "HEAD"} /\ IsFile(rt, ch, StaticTarget(req))
    THEN <<FileBody(JoinPath(DOC_ROOT, StaticTarget(req)))>>
    ELSE <<>>

\* format!("No static file with path '{}'!", path)
FallbackText(path) == <<"No static file with path '">> \o path \o <<"'!">>

\* a fallback handler that prints the URI with its query string
FallbackHandlerWithQuery(req) == <<TextBody(FallbackText(req.uri))>>

\* server.mount("/", middleware! { |req| ... }): every request
FallbackHandler(req) == <<TextBody(FallbackText(PathWithoutQuery(req.uri)))>>

\* the static handler registered before the home handler
HandlersStaticFirst == <<"static", "home", "fallback">>

\* the middleware stack, in registration order
Handlers == <<"home", "static", "fallback">>

Invoke(h, req, menu, rt, ch) ==
    CASE h = "home"     -> HomeHandler(req, menu)
      [] h = "static"   -> StaticHandler(req, rt, ch)
      [] h = "fallback" -> FallbackHandler(req)

\* the handlers are tried in order; the first that answers ends the chain
RECURSIVE RunChain(_, _, _, _, _, _)
RunChain(hs, ran, req, menu, rt, ch) ==
    IF hs = <<>>
    THEN [handler |-> "none", body |-> TextBody(<<"Not Found">>), ran |-> ran]
    ELSE LET out == Invoke(Head(hs), req, menu, rt, ch) IN
         IF out # <<>>
         THEN [handler |-> Head(hs), body |-> out[1],
               ran |-> Append(ran, Head(hs))]
         ELSE RunChain(Tail(hs), Append(ran, Head(hs)), req, menu, rt, ch)

\* the answer to req in the present state
Respond(req) == RunChain(Handlers, <<>>, req, menu_data, root, children)

-----------------------------------------------------------------------------
(* Inputs *)

V1_10 == <<"1", ".", "1", "0">>
V1_9 == <<"1", ".", "9">>
V1_6 == <<"1", ".", "6">>
V01_6 == <<"0", "1", ".", "6">>
V2_0 == <<"2", ".", "0">>
V1_10_0 == <<"1", ".", "1", "0", ".", "0">>
V01_05 == <<"0", "1", ".", "0", "5">>
VBig == <<"4", "2", "9", "4", "9", "6", "7", "2", "9", "6", ".", "0">>
VMax == <<"4", "2", "9", "4", "9", "6", "7", "2", "9", "5", ".", "0">>
NameAbc == <<"a", "b", "c">>
NameV1_2 == <<"v", "1", ".", "2">>

SeqsUpTo(S, n) == UNION {[1..k -> S] : k \in 0..n}

\* the directory names of SpecName: every string of at most MaxNameLen
\* characters over a four-letter alphabet, and some longer ones
NameAlphabet == {"0", "1", ".", "a"}
SingleNames ==
    (SeqsUpTo(NameAlphabet, MaxNameLen) \ {<<>>})
        \cup {V1_10, V1_9, V1_6, V01_6, V2_0, V1_10_0, V01_05, VBig, VMax,
              NameAbc, NameV1_2, IndexHtml}

\* the directory names of SpecScan
ScanNames == {V1_10, V1_9, V1_6, V01_6, V2_0, V1_10_0, NameAbc, VBig}

\* the names and the requests of Spec
ServerNames == {V1_9, V2_0, IndexHtml}
Requests ==
    {[method |-> "GET", uri |-> <<"/">>],
     [method |-> "GET", uri |-> <<"/", "?", "q">>],
     [method |-> "HEAD", uri |-> <<"/">>],
     [method |-> "POST", uri |-> <<"/">>],
     [method |-> "GET", uri |-> <<"/">> \o IndexHtml],
     [method |-> "GET", uri |-> <<"/">> \o IndexHtml \o <<"?", "q">>],
     [method |-> "HEAD", uri |-> <<"/">> \o IndexHtml],
     [method |-> "POST", uri |-> <<"/">> \o IndexHtml],
     [method |-> "GET", uri |-> <<"/">> \o V1_9]}

\* the directories of at most n entries with names of N and kinds of K
RECURSIVE Directories(_, _, _)
Directories(N, K, n) ==
    IF n = 0 THEN {<<>>}
    ELSE LET smaller == Directories(N, K, n - 1) IN
         smaller \cup
         {[x \in DOMAIN d \cup {name} |-> IF x = name THEN kind ELSE d[x]] :
             <<d, name, kind>> \in
                 {t \in smaller \X N \X K : t[2] \notin DOMAIN t[1]}}

-----------------------------------------------------------------------------
(* The server, the clients and the rest of the system *)

\* a request arrives
Accept(req) ==
    /\ pc = "listening"
    /\ req \notin inflight
    /\ Cardinality(inflight) < MaxInflight
    /\ inflight' = inflight \cup {req}
    /\ UNCHANGED <<root, children, pc, listing, version_tuples, result,
                   versions, menu_data, stdout, scans, response>>

\* a worker runs the handlers on a request and sends the response;
\* file_found records whether the static target was a file at that time
Handle(req) ==
    /\ pc = "listening"
    /\ req \in inflight
    /\ inflight' = inflight \ {req}
    /\ response' = <<[req |-> req,
                      handler |-> Respond(req).handler,
                      body |-> Respond(req).body,
                      ran |-> Respond(req).ran,
                      file_found |-> IsFile(root, children, StaticTarget(req))]>>
    /\ UNCHANGED <<root, children, pc, listing, version_tuples, result,
                   versions, menu_data, stdout, scans>>

\* someone creates an entry in the documentation root
FsAdd(name, kind) ==
    /\ root = "dir"
    /\ name \notin DOMAIN children
    /\ children' = [n \in DOMAIN children \cup {name} |->
                        IF n = name THEN kind ELSE children[n]]
    /\ UNCHANGED <<root, pc, listing, version_tuples, result, versions,
                   menu_data, stdout, scans, inflight, response>>

\* someone removes an entry of the documentation root
FsRemove(name) ==
    /\ root = "dir"
    /\ name \in DOMAIN children
    /\ children' = [n \in DOMAIN children \ {name} |-> children[n]]
    /\ UNCHANGED <<root, pc, listing, version_tuples, result, versions,
                   menu_data, stdout, scans, inflight, response>>

\* someone renames an entry of the documentation root
FsRename(old, new) ==
    /\ root = "dir"
    /\ old \in DOMAIN children
    /\ new \notin DOMAIN children
    /\ children' = [n \in (DOMAIN children \ {old}) \cup {new} |->
                        IF n = new THEN children[old] ELSE children[n]]
    /\ UNCHANGED <<root, pc, listing, version_tuples, result, versions,
                   menu_data, stdout, scans, inflight, response>>

-----------------------------------------------------------------------------
(* Specifications *)

InitMain ==
    /\ pc = "start"
    /\ listing = <<>>
    /\ version_tuples = <<>>
    /\ result = NoResult
    /\ versions = <<>>
    /\ menu_data = <<>>
    /\ stdout = <<>>
    /\ scans = 0
    /\ inflight = {}
    /\ response = <<>>

\* the whole program, on a small documentation root that changes
Init ==
    /\ root \in RootKinds
    /\ children \in Directories(ServerNames, {"dir", "file"}, Cardinality(ServerNames))
    /\ root \in {"missing", "file"} => children = <<>>
    /\ InitMain

Next ==
    \/ StatRoot
    \/ ReadDir
    \/ ScanEntry
    \/ GetVersionsOk
    \/ MainOk
    \/ MainErr
    \/ \E req \in Requests : Accept(req)
    \/ \E req \in Requests : Handle(req)
    \/ \E name \in ServerNames, kind \in {"dir", "file"} : FsAdd(name, kind)
    \/ \E name \in ServerNames : FsRemove(name)
    \/ \E old, new \in ServerNames : FsRename(old, new)

Spec == Init /\ [][Next]_vars

\* the scan of a root with one entry, of any name and kind
InitName ==
    /\ root = "dir"
    /\ children \in Directories(SingleNames, EntryKinds, 1)
    /\ InitMain

NextScan ==
    \/ StatRoot
    \/ ReadDir
    \/ ScanEntry
    \/ GetVersionsOk
    \/ MainErr

SpecName == InitName /\ [][NextScan]_vars

\* the scan of any root with up to MaxEntries entries
InitScan ==
    /\ root \in RootKinds
    /\ children \in Directories(ScanNames, EntryKinds, MaxEntries)
    /\ root \in {"missing", "file"} => children = <<>>
    /\ InitMain

SpecScan == InitScan /\ [][NextScan]_vars

\* make_menu_data on any sequence of labels
MenuLabels == {V1_10, V1_9, V1_6, V01_05}

InitMenu ==
    /\ root = "dir"
    /\ children = <<>>
    /\ pc = "returned"
    /\ listing = <<>>
    /\ version_tuples = <<>>
    /\ result \in {Ok(v) : v \in SeqsUpTo(MenuLabels, MaxVers)}
    /\ versions = <<>>
    /\ menu_data = <<>>
    /\ stdout = <<>>
    /\ scans = 1
    /\ inflight = {}
    /\ response = <<>>

NextMenu == MainOk

SpecMenu == InitMenu /\ [][NextMenu]_vars

-----------------------------------------------------------------------------
(* Decimal strings, for the statements below *)

RECURSIVE StripZeros(_)
StripZeros(s) ==
    IF Len(s) > 1 /\ Head(s) = "0" THEN StripZeros(Tail(s)) ELSE s

\* s < t as strings of equal length
RECURSIVE LexLess(_, _)
LexLess(s, t) ==
    /\ s # <<>>
    /\ \/ DigitVal(Head(s)) < DigitVal(Head(t))
       \/ Head(s) = Head(t) /\ LexLess(Tail(s), Tail(t))

\* the number s denotes is less than the number t denotes
DecLess(s, t) ==
    LET a == StripZeros(s)
        b == StripZeros(t)
    IN Len(a) < Len(b) \/ (Len(a) = Len(b) /\ LexLess(a, b))

AllAsciiDigits(s) == s # <<>> /\ \A i \in 1..Len(s) : s[i] \in AsciiDigits

\* the two groups of a label, split at its first dot
DotAt(s) == CHOOSE i \in 1..Len(s) : s[i] = "." /\ \A j \in 1..(i - 1) : s[j] # "."
MajorText(label) == SubSeq(label, 1, DotAt(label) - 1)
MinorText(label) == SubSeq(label, DotAt(label) + 1, Len(label))

\* (major, minor) of a is less than (major, minor) of b
KeyLess(a, b) ==
    \/ DecLess(MajorText(a), MajorText(b))
    \/ /\ ~DecLess(MajorText(b), MajorText(a))
       /\ DecLess(MinorText(a), MinorText(b))

\* digits, a dot, digits, and nothing else
ExactVersionName(name) ==
    \E i \in 1..Len(name) :
        /\ name[i] = "."
        /\ AllAsciiDigits(SubSeq(name, 1, i - 1))
        /\ AllAsciiDigits(SubSeq(name, i + 1, Len(name)))

IsPrefix(s, t) == Len(s) <= Len(t) /\ SubSeq(t, 1, Len(s)) = s

\* get_versions has returned
Returned == pc \in {"returned", "listening", "error", "exited"}

-----------------------------------------------------------------------------
(* The catalog's order *)

\* C1 as stated, on the roots whose entries all bear two-part names: the
\* catalog get_versions returns is strictly descending by (major, minor):
\* each entry is greater than the one after it.
C1_StrictlyDescending ==
    (result.tag = "Ok" /\ \A n \in DOMAIN children : ExactVersionName(n)) =>
        \A i \in 1..(Len(result.val) - 1) :
            KeyLess(result.val[i + 1], result.val[i])

\* C1, amended: the catalog get_versions returns is descending by (major,
\* minor), not always strictly: no entry is less than the one after it, and
\* two directories whose groups denote the same numbers (1.6 and 01.6) give
\* two neighbouring entries.
C1_Descending ==
    result.tag = "Ok" =>
        \A i \in 1..(Len(result.val) - 1) :
            ~KeyLess(result.val[i], result.val[i + 1])

\* a catalog of three with two entries of the same (major, minor)
C1_Witness ==
    /\ result.tag = "Ok"
    /\ Len(result.val) = 3
    /\ result.val[1] = V1_10
    /\ {result.val[2], result.val[3]} = {V1_6, V01_6}

-----------------------------------------------------------------------------
(* The entries that become catalog entries *)

\* the entry whose turn it is in the for loop is a regular file, or a
\* directory whose name is not digits, a dot, digits
C2_Unqualified ==
    /\ pc = "iter"
    /\ listing # <<>>
    /\ Head(listing) \in DOMAIN children
    /\ \/ children[Head(listing)] = "file"
       \/ /\ children[Head(listing)] = "dir"
          /\ ~ExactVersionName(Head(listing))

\* C2 as stated: an entry that is not a directory, or whose name is not
\* exactly digits, a dot, digits (1.10.0, abc), gives no catalog entry and
\* no error: its turn of the loop pushes nothing and the loop goes on.
C2_OnlyExactNamesListed ==
    [][(C2_Unqualified /\ listing' = Tail(listing)) =>
            (version_tuples' = version_tuples /\ pc' = "iter")]_vars

-----------------------------------------------------------------------------
(* The root that is not a directory *)

\* C5 as stated: get_versions returns an error, never an Ok catalog, when
\* the root does not exist, is not accessible, or is not a directory.
C5_ErrorForBadRoot ==
    (root # "dir" /\ Returned) => result.tag = "Err"

\* C5, amended: get_versions returns a filesystem error when the root does
\* not exist or is not accessible; when the root exists and is not a
\* directory (a regular file) it returns Ok with an empty catalog.
C5_ErrorOrEmpty ==
    /\ (root \in {"missing", "unreadable"} /\ Returned) =>
            (result.tag = "Err" /\ pc \in {"error", "exited"})
    /\ root \in {"missing", "unreadable"} => pc \notin {"iter", "panicked"}
    /\ root = "file" =>
            /\ pc \notin {"read_dir", "error", "exited", "panicked"}
            /\ Returned => result = Ok(<<>>)

\* the root is a regular file and get_versions has returned Ok(vec![])
C5_Witness ==
    /\ root = "file"
    /\ pc = "returned"
    /\ result = Ok(<<>>)

-----------------------------------------------------------------------------
(* The label of a version *)

\* C9 as stated: the label of every tuple list_version_dirs creates is the
\* canonical "{major}.{minor}" formatted from its two parsed integers.
C9_LabelCanonical ==
    \A i \in 1..Len(version_tuples) :
        version_tuples[i][3] =
            FormatLabel(U32ToString(version_tuples[i][1]),
                        U32ToString(version_tuples[i][2]))

\* C9, amended: the label of every tuple list_version_dirs creates is the
\* text of the two matched digit groups joined by a dot, as they stand at
\* the start of the directory's name, leading zeros kept; major and minor
\* are the numbers the two groups denote.  (So the label is the canonical
\* "{major}.{minor}" only when neither group has a leading zero.)
C9_LabelIsDigitText ==
    \A i \in 1..Len(version_tuples) :
        LET t == version_tuples[i] IN
        /\ \E n \in DOMAIN children : children[n] = "dir" /\ IsPrefix(t[3], n)
        /\ ExactVersionName(t[3])
        /\ U32ToString(t[1]) = StripZeros(MajorText(t[3]))
        /\ U32ToString(t[2]) = StripZeros(MinorText(t[3]))

\* the directory 01.05 gave the tuple (1, 5, "01.05")
C9_Witness ==
    /\ version_tuples = <<<<(<<0, 1>>), (<<0, 5>>), V01_05>>>>
    /\ pc = "returned"

-----------------------------------------------------------------------------
(* The parse of the digit groups *)

\* C10 as stated: on a directory whose name matches the pattern, the
\* conversion of the two digit groups to u32 succeeds: list_version_dirs
\* never panics.
C10_NeverPanics == pc # "panicked"

-----------------------------------------------------------------------------
(* The menu data *)

\* C7: for every sequence of labels, make_menu_data returns a map whose
\* only key is "versions", whose value has the length of the sequence and
\* holds at i the one-entry map {"version": i-th label}; it cannot fail
\* (main always gets past it).
C7_MenuData ==
    /\ pc = "returned" /\ result.tag = "Ok" => ENABLED MainOk
    /\ pc = "listening" =>
        /\ Len(menu_data) = 1
        /\ DOMAIN menu_data[1] = {"versions"}
        /\ Len(menu_data[1].versions) = Len(result.val)
        /\ \A i \in 1..Len(result.val) :
              /\ DOMAIN menu_data[1].versions[i] = {"version"}
              /\ menu_data[1].versions[i].version = result.val[i]

\* the menu data of an unsorted catalog with a repeated label
C7_Witness ==
    /\ pc = "listening"
    /\ result.val = <<V1_6, V1_10, V1_6>>
    /\ Len(menu_data[1].versions) = 3

-----------------------------------------------------------------------------
(* Routing *)

ReqPath == PathWithoutQuery(response[1].req.uri)

\* C3 as stated: every request whose path is exactly "/" is answered by
\* the home handler, never by the static or the fallback handler.
C3_RootAlwaysHome ==
    (response # <<>> /\ ReqPath = <<"/">>) => response[1].handler = "home"

\* C3, amended: every GET request whose path is exactly "/" is answered by
\* the home handler with the page rendered from the menu data, whatever
\* the file system holds; the other handlers do not run.
C3_GetRootAlwaysHome ==
    (response # <<>> /\ ReqPath = <<"/">> /\ response[1].req.method = "GET") =>
        /\ response[1].handler = "home"
        /\ response[1].ran = <<"home">>
        /\ response[1].body = PageBody(menu_data)

\* GET / answered by the home handler with an empty catalog, while
\* index.html, which the static handler serves for "/", is a file
C3_Witness ==
    /\ response # <<>>
    /\ response[1].req = [method |-> "GET", uri |-> <<"/">>]
    /\ response[1].handler = "home"
    /\ response[1].file_found
    /\ versions = <<>>

\* the text of the fallback handler for the last request
ExpectedText ==
    TextBody(<<"No static file with path '">> \o ReqPath \o <<"'!">>)

\* C4 as stated: for a request whose path is not "/", if a static file
\* for the path exists the response is that file and the fallback handler
\* does not run; if none exists the body is the fallback text.
C4_FirstMatchWins ==
    (response # <<>> /\ ReqPath # <<"/">>) =>
        IF response[1].file_found
        THEN /\ response[1].handler = "static"
             /\ response[1].body = FileBody(DOC_ROOT \o ReqPath)
             /\ response[1].ran = <<"home", "static">>
        ELSE /\ response[1].body = ExpectedText

\* C4, amended: for a request whose path is not "/", the handlers are
\* tried in fixed order and the first that handles it wins: if the method
\* is GET or HEAD and a static file for the path exists, the response is
\* that file and the fallback handler does not run; in every other case
\* (no such file, or another method) the fallback handler answers and the
\* body is the fallback text with the path without its query string.
C4_FirstMatchWinsGetHead ==
    (response # <<>> /\ ReqPath # <<"/">>) =>
        IF response[1].file_found /\ response[1].req.method \in {"GET", "HEAD"}
        THEN /\ response[1].handler = "static"
             /\ response[1].body = FileBody(DOC_ROOT \o ReqPath)
             /\ response[1].ran = <<"home", "static">>
        ELSE /\ response[1].handler = "fallback"
             /\ response[1].body = ExpectedText
             /\ response[1].ran = <<"home", "static", "fallback">>

\* a request with a query string, for a file that does not exist, answered
\* by the fallback handler
C4_Witness ==
    /\ response # <<>>
    /\ response[1].req = [method |-> "GET", uri |-> <<"/">> \o IndexHtml \o <<"?", "q">>]
    /\ ~response[1].file_found
    /\ response[1].handler = "fallback"

-----------------------------------------------------------------------------
(* Start-up *)

\* C6: if the scan fails (the root missing or unreadable, the metadata of
\* an entry unreadable at its turn), the error goes unchanged out of
\* get_versions, main prints it with the directory and returns; the server
\* never listens and never answers, not with a partial catalog either, and
\* the scan is not tried again.
C6_ScanFailureIsFatal ==
    /\ [](/\ scans <= 1
          /\ result.tag = "Err" =>
                /\ pc \in {"error", "exited"}
                /\ menu_data = <<>>
                /\ inflight = {}
                /\ response = <<>>
          /\ pc = "listening" => result.tag = "Ok"
          /\ pc = "exited" =>
                /\ result.tag = "Err"
                /\ stdout = <<[error |-> result.err, dir |-> DOC_ROOT]>>)
    /\ [][/\ (pc = "start" /\ pc' # pc /\ root = "missing") =>
                result' = Err("NotFound")
          /\ (pc = "read_dir" /\ pc' # pc /\ root = "unreadable") =>
                result' = Err("PermissionDenied")
          /\ (pc = "iter" /\ listing # <<>> /\ listing' = Tail(listing)
                /\ Head(listing) \notin DOMAIN children) =>
                result' = Err("NotFound")
          /\ result.tag = "Err" => result' = result]_vars

\* main has exited on an entry that went away during the scan, after an
\* earlier entry had been collected
C6_Witness ==
    /\ pc = "exited"
    /\ root = "dir"
    /\ version_tuples # <<>>
    /\ stdout = <<[error |-> "NotFound", dir |-> DOC_ROOT]>>

\* C8: the menu data is written once, before the server answers any
\* request, and never changes: every home page is rendered with the menu
\* data of the start-up scan, whatever requests and changes of the root
\* interleave, and no request scans again.
C8_MenuWrittenOnce ==
    /\ [](/\ scans <= 1
          /\ pc # "listening" => (response = <<>> /\ inflight = {} /\ menu_data = <<>>)
          /\ pc = "listening" =>
                /\ versions = result.val
                /\ menu_data = <<make_menu_data(result.val)>>
          /\ (response # <<>> /\ response[1].handler = "home") =>
                response[1].body = PageBody(<<make_menu_data(result.val)>>))
    /\ [][/\ pc = "listening" =>
                (menu_data' = menu_data /\ versions' = versions /\ scans' = scans
                    /\ result' = result /\ pc' = pc)
          /\ menu_data' # menu_data => (pc = "returned" /\ menu_data = <<>>)]_vars

\* a home page rendered with the two versions of the start-up scan after
\* every entry of the root was removed
C8_Witness ==
    /\ response # <<>>
    /\ response[1].handler = "home"
    /\ response[1].body = PageBody(<<make_menu_data(<<V2_0, V1_9>>)>>)
    /\ DOMAIN children = {}

====
